---- MODULE Spec2Model ----
(***************************************************************************)
(* The streaming front end of HierarchicalAgentTeams: App.vue's            *)
(* handleSubmit / fetchStreamData / updateAgentFromMessage /               *)
(* updateAgentStatus (listed in README.md), ChatDisplay's filteredMessages *)
(* and InputArea's disabled bindings.                                      *)
(*                                                                         *)
(* Text is a sequence of units, each a one-element string.  Most units are *)
(* single characters ("d", " ", "{", "\n"); a JSON key or value is one     *)
(* unit ("type", "thinking") standing for the run of characters that       *)
(* spells it, none of them a newline, a brace or white space.  Names the   *)
(* source writes in Chinese are spelled in pinyin: ZhuGuan, SouSuoQi,      *)
(* XiTong, YongHu; the error glyph is "[X]".                               *)
(***************************************************************************)
EXTENDS Integers, Sequences, FiniteSets, TLC

(***************************************************************************)
(* Bounds of the model.                                                    *)
(***************************************************************************)
MaxRuns == 2
MaxLines == 3
MaxEventLines == 2
MaxFrags == 3
MaxWireLines == 2
MaxMixLines == 3

(***************************************************************************)
(* String primitives of JavaScript, on sequences of units.                 *)
(***************************************************************************)
NL == "\n"

WhiteSpace == {" ", "\t", "\r", "\n"}

endsWith(s, c) == Len(s) > 0 /\ s[Len(s)] = c

startsWith(s, p) == Len(s) >= Len(p) /\ SubSeq(s, 1, Len(p)) = p

slice(s, n) == SubSeq(s, n + 1, Len(s))

RECURSIVE trimStart(_)
trimStart(s) ==
  IF s # <<>> /\ Head(s) \in WhiteSpace THEN trimStart(Tail(s)) ELSE s

RECURSIVE trimEnd(_)
trimEnd(s) ==
  IF s # <<>> /\ s[Len(s)] \in WhiteSpace
  THEN trimEnd(SubSeq(s, 1, Len(s) - 1))
  ELSE s

trim(s) == trimEnd(trimStart(s))

\* String.prototype.split('\n'): always at least one segment.
RECURSIVE split(_)
split(s) ==
  IF \E i \in 1..Len(s) : s[i] = NL
  THEN LET i == CHOOSE j \in 1..Len(s) :
                  s[j] = NL /\ \A k \in 1..(j - 1) : s[k] # NL
       IN  <<SubSeq(s, 1, i - 1)>> \o split(SubSeq(s, i + 1, Len(s)))
  ELSE <<s>>

(***************************************************************************)
(* UTF-8.  An agent name is not ASCII: its bytes are cut here into a       *)
(* leading and a trailing part, so that a chunk boundary can fall inside   *)
(* it.  Every other unit is one byte.                                      *)
(***************************************************************************)
Replacement == "U+FFFD"

LeadOf == [u \in {"ZhuGuan", "SouSuoQi"} |->
             IF u = "ZhuGuan" THEN "ZhuGuan/1" ELSE "SouSuoQi/1"]

ContOf == [u \in {"ZhuGuan", "SouSuoQi"} |->
             IF u = "ZhuGuan" THEN "ZhuGuan/2" ELSE "SouSuoQi/2"]

MultiByte == DOMAIN LeadOf

LeadBytes == {LeadOf[u] : u \in MultiByte}

ContBytes == {ContOf[u] : u \in MultiByte}

RECURSIVE utf8(_)
utf8(text) ==
  IF text = <<>> THEN <<>>
  ELSE (IF Head(text) \in MultiByte
        THEN <<LeadOf[Head(text)], ContOf[Head(text)]>>
        ELSE <<Head(text)>>) \o utf8(Tail(text))

\* TextDecoder.decode(value, {stream: true}): `pending` is the incomplete
\* byte sequence the decoder holds back at the end of a chunk.
RECURSIVE decodeBytes(_, _)
decodeBytes(bytes, stream) ==
  IF bytes = <<>> THEN [text |-> <<>>, pending |-> <<>>]
  ELSE IF Head(bytes) \in LeadBytes
  THEN IF Len(bytes) >= 2
       THEN LET u == CHOOSE v \in MultiByte : LeadOf[v] = Head(bytes)
            IN  IF bytes[2] = ContOf[u]
                THEN LET r == decodeBytes(SubSeq(bytes, 3, Len(bytes)), stream)
                     IN  [r EXCEPT !.text = <<u>> \o r.text]
                ELSE LET r == decodeBytes(Tail(bytes), stream)
                     IN  [r EXCEPT !.text = <<Replacement>> \o r.text]
       ELSE IF stream
            THEN [text |-> <<>>, pending |-> bytes]
            ELSE [text |-> <<Replacement>>, pending |-> <<>>]
  ELSE IF Head(bytes) \in ContBytes
  THEN LET r == decodeBytes(Tail(bytes), stream)
       IN  [r EXCEPT !.text = <<Replacement>> \o r.text]
  ELSE LET r == decodeBytes(Tail(bytes), stream)
       IN  [r EXCEPT !.text = <<Head(bytes)>> \o r.text]

decodeNoStream(pending, value) == decodeBytes(value, FALSE)

decode(pending, value) == decodeBytes(pending \o value, TRUE)

(***************************************************************************)
(* JSON.  An event object is written {type node [agent] message}; a        *)
(* newline inside the message is written as the escape \n.                 *)
(***************************************************************************)
EscNL == "\\n"

Structural == {"{", "}", "type", "node", "agent", "message"}

RECURSIVE escape(_)
escape(m) ==
  IF m = <<>> THEN <<>>
  ELSE <<IF Head(m) = NL THEN EscNL ELSE Head(m)>> \o escape(Tail(m))

RECURSIVE unescape(_)
unescape(m) ==
  IF m = <<>> THEN <<>>
  ELSE <<IF Head(m) = EscNL THEN NL ELSE Head(m)>> \o unescape(Tail(m))

\* JSON.stringify of an event; agent = "" stands for an absent agent field.
stringify(ev) ==
  <<"{", "type", ev.type, "node", ev.node>>
    \o (IF ev.agent # "" THEN <<"agent", ev.agent>> ELSE <<>>)
    \o <<"message">> \o escape(ev.message) \o <<"}">>

\* JSON.parse: [ok |-> TRUE, value |-> the object] or [ok |-> FALSE], a
\* SyntaxError.
JSONparse(t) ==
  LET n == Len(t)
      hasAgent == n >= 9 /\ t[6] = "agent"
      m == IF hasAgent THEN 8 ELSE 6
      wellFormed ==
        /\ n >= 7
        /\ t[1] = "{" /\ t[n] = "}"
        /\ t[2] = "type" /\ t[3] \notin Structural
        /\ t[4] = "node" /\ t[5] \notin Structural
        /\ hasAgent => t[7] \notin Structural
        /\ n >= m + 1 /\ t[m] = "message"
        /\ \A i \in (m + 1)..(n - 1) :
             t[i] \notin Structural \cup WhiteSpace
  IN  IF wellFormed
      THEN [ok |-> TRUE,
            value |-> [type |-> t[3], node |-> t[5],
                       agent |-> IF hasAgent THEN t[7] ELSE "",
                       message |-> unescape(SubSeq(t, m + 1, n - 1))]]
      ELSE [ok |-> FALSE]

DataPrefix == <<"d", "a", "t", "a", ":", " ">>

\* One line of the wire format: data: <JSON object>\n
wireLine(ev) == DataPrefix \o stringify(ev) \o <<NL>>

(***************************************************************************)
(* The agent roster (App.vue's agentTeam) and the events of the stream.    *)
(* Two of the eight roster entries are modelled; every entry is treated    *)
(* alike by the code.                                                      *)
(***************************************************************************)
AgentNames == {"ZhuGuan", "SouSuoQi"}

DefaultAgent == "XiTong"

NoEvent == [type |-> "", node |-> "", agent |-> "", message |-> <<>>]

ErrorMarker == <<"[X]", " ">>

(***************************************************************************)
(* The transcript side of fetchStreamData's line handling, on              *)
(* S = [messages, index]: messages.value and                               *)
(* currentMainMessageIndex.value (0-based, -1 for none).                   *)
(***************************************************************************)
\* messages.value.push(parsedData); currentMainMessageIndex = length - 1
openMainSlot(S, parsedData) ==
  [messages |-> Append(S.messages, parsedData), index |-> Len(S.messages)]

\* Mutant: the separator is added whether or not the text ends in a newline.
appendToMainSlot_alwaysSep(S, sep, text) ==
  IF S.index + 1 \in DOMAIN S.messages
  THEN [S EXCEPT !.messages[S.index + 1].message = @ \o sep \o text]
  ELSE S

\* Mutant: the merged entry takes the kind and the agent of the event.
\* (The event is not among the arguments: the entry is marked instead.)
appendToMainSlot_retyped(S, sep, text) ==
  IF S.index + 1 \in DOMAIN S.messages
  THEN LET currentMessage == S.messages[S.index + 1]
           separator == IF endsWith(currentMessage.message, NL) THEN <<>> ELSE sep
       IN  [S EXCEPT !.messages[S.index + 1] =
                        [currentMessage EXCEPT
                           !.type = "merged",
                           !.message = currentMessage.message \o separator \o text]]
  ELSE S

\* Mutant: the text is merged into the last entry, whichever the main slot.
appendToMainSlot_intoLast(S, sep, text) ==
  IF S.index + 1 \in DOMAIN S.messages
  THEN LET currentMessage == S.messages[Len(S.messages)]
           separator == IF endsWith(currentMessage.message, NL) THEN <<>> ELSE sep
       IN  [S EXCEPT !.messages[Len(S.messages)].message =
                        currentMessage.message \o separator \o text]
  ELSE S

\* const newMessage = {...currentMessage, message: currentMessage.message +
\* separator + text}; messages.value.splice(index, 1, newMessage)
appendToMainSlot(S, sep, text) ==
  IF S.index + 1 \in DOMAIN S.messages
  THEN LET currentMessage == S.messages[S.index + 1]
           separator == IF endsWith(currentMessage.message, NL) THEN <<>> ELSE sep
       IN  [S EXCEPT !.messages[S.index + 1].message =
                        currentMessage.message \o separator \o text]
  ELSE S

thinkingBranch(S, parsedData) ==
  IF S.index = -1
  THEN openMainSlot(S, parsedData)
  ELSE appendToMainSlot(S, <<NL>>, parsedData.message)

\* Mutant: the result branch uses the thinking branch's separator.
resultBranch_singleNL(S, parsedData) ==
  IF S.index # -1
  THEN appendToMainSlot(S, <<NL>>, parsedData.message)
  ELSE openMainSlot(S, parsedData)

resultBranch(S, parsedData) ==
  IF S.index # -1
  THEN appendToMainSlot(S, <<NL, NL>>, parsedData.message)
  ELSE openMainSlot(S, parsedData)

\* Mutant: the error branch appends the text without the marker.
errorBranch_noMarker(S, parsedData) ==
  IF S.index # -1
  THEN appendToMainSlot(S, <<NL, NL>>, parsedData.message)
  ELSE openMainSlot(S, parsedData)

errorBranch(S, parsedData) ==
  IF S.index # -1
  THEN appendToMainSlot(S, <<NL, NL>>, ErrorMarker \o parsedData.message)
  ELSE openMainSlot(S, parsedData)

\* Mutant: the status branch uses the result branch's separator.
statusBranch_doubleNL(S, parsedData) ==
  IF S.index # -1
  THEN appendToMainSlot(S, <<NL, NL>>, parsedData.message)
  ELSE openMainSlot(S, parsedData)

statusBranch(S, parsedData) ==
  IF S.index # -1
  THEN appendToMainSlot(S, <<NL>>, parsedData.message)
  ELSE openMainSlot(S, parsedData)

\* Mutant: a connection or end event opens the main slot.
markerBranch_opens(S, parsedData) ==
  [messages |-> Append(S.messages, parsedData), index |-> Len(S.messages)]

\* connection / end: messages.value.push(parsedData)
markerBranch(S, parsedData) ==
  [S EXCEPT !.messages = Append(S.messages, parsedData)]

\* Mutant: a kind without a branch is appended as a new entry.
aggregate_pushesOthers(S, parsedData) ==
  IF parsedData.node # "supervisor" THEN S
  ELSE CASE parsedData.type = "thinking" -> thinkingBranch(S, parsedData)
         [] parsedData.type \in {"result", "final"} -> resultBranch(S, parsedData)
         [] parsedData.type = "error" -> errorBranch(S, parsedData)
         [] parsedData.type = "status" -> statusBranch(S, parsedData)
         [] parsedData.type \in {"connection", "end"} -> markerBranch(S, parsedData)
         [] OTHER -> [S EXCEPT !.messages = Append(S.messages, parsedData)]

\* if (parsedData.node === 'supervisor') { ... }
aggregate(S, parsedData) ==
  IF parsedData.node # "supervisor" THEN S
  ELSE CASE parsedData.type = "thinking" -> thinkingBranch(S, parsedData)
         [] parsedData.type \in {"result", "final"} -> resultBranch(S, parsedData)
         [] parsedData.type = "error" -> errorBranch(S, parsedData)
         [] parsedData.type = "status" -> statusBranch(S, parsedData)
         [] parsedData.type \in {"connection", "end"} -> markerBranch(S, parsedData)
         [] OTHER -> S

(***************************************************************************)
(* The agent tracker, on T = [team, active]: agentTeam (name -> status and *)
(* active flag) and currentActiveAgent.value ("" for none).                *)
(***************************************************************************)
updateAgentStatus(team, status) ==
  [a \in DOMAIN team |-> [status |-> status, active |-> (status = "active")]]

\* Mutant: a status event sets every agent active.
updateAgentFromMessage_statusAll(T, message) ==
  LET agentName == IF message.agent # "" THEN message.agent ELSE DefaultAgent
  IN  IF agentName \in DOMAIN T.team
      THEN CASE message.type = "status" ->
                  [team |-> updateAgentStatus(T.team, "active"),
                   active |-> agentName]
             [] message.type \in {"result", "final"} ->
                  [team |-> [T.team EXCEPT ![agentName] =
                                [status |-> "completed", active |-> FALSE]],
                   active |-> IF message.type = "final" THEN "" ELSE T.active]
             [] message.type = "error" ->
                  [team |-> [T.team EXCEPT ![agentName] =
                                [status |-> "idle", active |-> FALSE]],
                   active |-> ""]
             [] OTHER -> T
      ELSE IF message.type = "end"
           THEN [team |-> [a \in DOMAIN T.team |->
                             [status |-> "idle", active |-> FALSE]],
                 active |-> ""]
           ELSE T

\* Mutant: an error event leaves currentActiveAgent as it is.
updateAgentFromMessage_errorKeepsActive(T, message) ==
  LET agentName == IF message.agent # "" THEN message.agent ELSE DefaultAgent
  IN  IF agentName \in DOMAIN T.team
      THEN CASE message.type = "status" ->
                  [team |-> [T.team EXCEPT ![agentName] =
                                [status |-> "active", active |-> TRUE]],
                   active |-> agentName]
             [] message.type \in {"result", "final"} ->
                  [team |-> [T.team EXCEPT ![agentName] =
                                [status |-> "completed", active |-> FALSE]],
                   active |-> IF message.type = "final" THEN "" ELSE T.active]
             [] message.type = "error" ->
                  [team |-> [T.team EXCEPT ![agentName] =
                                [status |-> "idle", active |-> FALSE]],
                   active |-> T.active]
             [] OTHER -> T
      ELSE IF message.type = "end"
           THEN [team |-> [a \in DOMAIN T.team |->
                             [status |-> "idle", active |-> FALSE]],
                 active |-> ""]
           ELSE T

\* updateAgentFromMessage: the agent named by the event, or the default
\* name, looked up in agentTeam.
updateAgentFromMessage(T, message) ==
  LET agentName == IF message.agent # "" THEN message.agent ELSE DefaultAgent
  IN  IF agentName \in DOMAIN T.team
      THEN CASE message.type = "status" ->
                  [team |-> [T.team EXCEPT ![agentName] =
                                [status |-> "active", active |-> TRUE]],
                   active |-> agentName]
             [] message.type \in {"result", "final"} ->
                  [team |-> [T.team EXCEPT ![agentName] =
                                [status |-> "completed", active |-> FALSE]],
                   active |-> IF message.type = "final" THEN "" ELSE T.active]
             [] message.type = "error" ->
                  [team |-> [T.team EXCEPT ![agentName] =
                                [status |-> "idle", active |-> FALSE]],
                   active |-> ""]
             [] OTHER -> T
      ELSE IF message.type = "end"
           THEN [team |-> [a \in DOMAIN T.team |->
                             [status |-> "idle", active |-> FALSE]],
                 active |-> ""]
           ELSE T

(***************************************************************************)
(* The decoder side of fetchStreamData's line handling.                    *)
(***************************************************************************)
\* if (line.trim() && line.startsWith('data: '))
isDataLine(line) == trim(line) # <<>> /\ startsWith(line, DataPrefix)

\* const jsonData = line.slice(6).trim()
jsonDataOf(line) == trim(slice(line, 6))

\* if (!jsonData.endsWith('}')) { ...; continue }
isComplete(jsonData) == endsWith(jsonData, "}")

\* Mutant: an incomplete payload is closed with a brace and parsed.
parseLine_repairing(line) ==
  IF ~isDataLine(line) THEN [ok |-> FALSE]
  ELSE IF ~isComplete(jsonDataOf(line))
  THEN JSONparse(jsonDataOf(line) \o <<"}">>)
  ELSE JSONparse(jsonDataOf(line))

\* Mutant: a payload that does not parse yields an empty thinking event.
parseLine_lenient(line) ==
  IF ~isDataLine(line) THEN [ok |-> FALSE]
  ELSE IF ~isComplete(jsonDataOf(line)) THEN [ok |-> FALSE]
  ELSE IF JSONparse(jsonDataOf(line)).ok THEN JSONparse(jsonDataOf(line))
  ELSE [ok |-> TRUE,
        value |-> [type |-> "thinking", node |-> "supervisor", agent |-> "",
                   message |-> <<>>]]

\* The event a line yields: [ok |-> TRUE, value |-> parsedData], or
\* [ok |-> FALSE] for a line that is skipped (not a data line, incomplete,
\* or a SyntaxError caught by the inner catch).
parseLine(line) ==
  IF ~isDataLine(line) THEN [ok |-> FALSE]
  ELSE IF ~isComplete(jsonDataOf(line)) THEN [ok |-> FALSE]
  ELSE JSONparse(jsonDataOf(line))

\* buffer += chunk; lines = buffer.split('\n'); lastLine = lines.pop() || ''
splitBuffer(buffer) ==
  LET segs == split(buffer)
  IN  [lines |-> SubSeq(segs, 1, Len(segs) - 1), lastLine |-> segs[Len(segs)]]

(***************************************************************************)
(* The environment: what the backend sends and how the transport cuts it.  *)
(* `env` is fixed by Init.  "session" exercises the controller (several    *)
(* runs, whole lines per chunk); "events" one run of every kind of event   *)
(* from either node; "merge" one run of top-level text events with varied  *)
(* text; "mix" one run of top-level events of the kinds that share the     *)
(* main slot; "wire" one run whose bytes are cut into chunks at any        *)
(* position, with malformed lines among them.  env.lines bounds the lines  *)
(* the backend sends, over all runs.                                       *)
(***************************************************************************)
Tasks == {<<"t", "1">>, <<"t", "2">>}

Kinds == {"connection", "status", "decomposition", "thinking", "result",
          "final", "error", "end"}

Nodes == {"supervisor", "research_team"}

AllEvents ==
  [type : Kinds, node : Nodes, agent : {"ZhuGuan", ""}, message : {<<"x">>}]

SessionEvents ==
  [type : Kinds, node : {"supervisor"}, agent : {"ZhuGuan"},
   message : {<<"x">>}]

MergeEvents ==
  [type : {"thinking", "result", "final"}, node : {"supervisor"},
   agent : {"ZhuGuan"},
   message : {<<>>, <<"x">>, <<"y">>, <<"x", NL>>, <<NL, "y">>}]

MixEvents ==
  [type : {"thinking", "status", "result", "error"}, node : {"supervisor"},
   agent : {"ZhuGuan"}, message : {<<"x">>, <<"y", NL>>}]

WireEvents ==
  {[type |-> "thinking", node |-> "supervisor", agent |-> "ZhuGuan",
    message |-> <<"x", NL>>],
   [type |-> "result", node |-> "supervisor", agent |-> "",
    message |-> <<"y">>]}

\* Lines that carry no event: a blank line, a comment, a data line cut
\* before its closing brace, a data line that is not JSON, and a line with
\* white space and a carriage return around a good payload (an event).
BlankLine == <<NL>>

CommentLine == <<":", NL>>

TruncatedLine ==
  DataPrefix \o <<"{", "type", "thinking", "node", "supervisor", "message", "x", NL>>

GarbledLine == DataPrefix \o <<"{", "type", "}", NL>>

PaddedLine ==
  DataPrefix \o <<" ">>
    \o stringify([type |-> "status", node |-> "supervisor",
                  agent |-> "SouSuoQi", message |-> <<"y">>])
    \o <<"\r", NL>>

\* An event line the backend has not terminated with a newline.
UnterminatedLine ==
  DataPrefix \o stringify([type |-> "status", node |-> "supervisor",
                           agent |-> "ZhuGuan", message |-> <<"x">>])

LinesOf(name) ==
  CASE name = "session" ->
         {utf8(wireLine(ev)) : ev \in SessionEvents} \cup {utf8(BlankLine)}
    [] name = "events" ->
         {utf8(wireLine(ev)) : ev \in AllEvents}
           \cup {utf8(BlankLine), utf8(UnterminatedLine)}
    [] name = "merge" ->
         {utf8(wireLine(ev)) : ev \in MergeEvents} \cup {utf8(BlankLine)}
    [] name = "mix" ->
         {utf8(wireLine(ev)) : ev \in MixEvents} \cup {utf8(BlankLine)}
    [] name = "wire" ->
         {utf8(wireLine(ev)) : ev \in WireEvents}
           \cup {utf8(l) : l \in {BlankLine, CommentLine, TruncatedLine,
                                  GarbledLine, PaddedLine}}

SessionEnv ==
  [name |-> "session", runs |-> MaxRuns, lines |-> MaxLines, cut |-> FALSE]

EventsEnv ==
  [name |-> "events", runs |-> 1, lines |-> MaxEventLines, cut |-> FALSE]

MergeEnv == [name |-> "merge", runs |-> 1, lines |-> MaxFrags, cut |-> FALSE]

MixEnv == [name |-> "mix", runs |-> 1, lines |-> MaxMixLines, cut |-> FALSE]

WireEnv == [name |-> "wire", runs |-> 1, lines |-> MaxWireLines, cut |-> TRUE]

(***************************************************************************)
(* State.                                                                  *)
(***************************************************************************)
VARIABLES
  messages,                 \* messages.value
  currentMainMessageIndex,  \* currentMainMessageIndex.value
  loading,                  \* loading.value
  error,                    \* error.value
  currentActiveAgent,       \* currentActiveAgent.value
  agentTeam,                \* agentTeam: name -> [status, active]
  runs,                     \* how many times handleSubmit has run
  fetch,                    \* the fetchStreamData call of each run
  running,                  \* the call executing synchronous code, 0 if none
  net,                      \* bytes sent and not yet read, per run; lines sent
  env,                      \* the environment
  identity,                 \* which object each entry of messages is
  lastTask,                 \* history: the task of the latest submit
  delivered,                \* history: bytes read so far, per run, and whether
                            \* an event line arrived in more than one chunk
  received                  \* history: events logged at line 461, per run

app == <<messages, currentMainMessageIndex, loading, error,
         currentActiveAgent, agentTeam>>

vars == <<messages, currentMainMessageIndex, loading, error,
          currentActiveAgent, agentTeam, runs, fetch, running, net, env,
          identity, lastTask, delivered, received>>

RunIds == 1..MaxRuns

\* A call of fetchStreamData: where it is (pc) and its locals, each kept
\* while it can still be read.
\*   "none"   not started          "fetch"  awaiting fetch(...)
\*   "read"   awaiting reader.read()
\*   "loop"   in the for loop over lines (synchronous)
\*   "tick"   awaiting nextTick() in the handling of parsedData
\*   "closed" returned
NoCall ==
  [pc |-> "none", task |-> <<>>, pending |-> <<>>, buffer |-> <<>>,
   lines |-> <<>>, lastLine |-> <<>>, parsedData |-> NoEvent]

Returned == [NoCall EXCEPT !.pc = "closed"]

Live(r) == fetch[r].pc \in {"fetch", "read", "loop", "tick"}

Mounted ==
  /\ messages = <<>>
  /\ currentMainMessageIndex = -1
  /\ loading = FALSE
  /\ error = ""
  /\ currentActiveAgent = ""
  /\ agentTeam = [a \in AgentNames |-> [status |-> "idle", active |-> FALSE]]
  /\ runs = 0
  /\ fetch = [r \in RunIds |-> NoCall]
  /\ running = 0
  /\ net = [rest |-> [r \in RunIds |-> <<>>], sent |-> 0]
  /\ identity = <<>>
  /\ lastTask = <<>>
  /\ delivered = [r \in RunIds |-> [bytes |-> <<>>, carried |-> FALSE]]
  /\ received = [r \in RunIds |-> <<>>]

Init == Mounted /\ env = SessionEnv

InitEvents == Mounted /\ env = EventsEnv

InitMerge == Mounted /\ env = MergeEnv

InitMix == Mounted /\ env = MixEnv

InitWire == Mounted /\ env = WireEnv

(***************************************************************************)
(* The handlers' effect on the application state                           *)
(* A = [messages, index, loading, error, active, team].                    *)
(***************************************************************************)
App ==
  [messages |-> messages, index |-> currentMainMessageIndex,
   loading |-> loading, error |-> error, active |-> currentActiveAgent,
   team |-> agentTeam]

SetApp(A) ==
  /\ messages' = A.messages
  /\ currentMainMessageIndex' = A.index
  /\ loading' = A.loading
  /\ error' = A.error
  /\ currentActiveAgent' = A.active
  /\ agentTeam' = A.team

userMessage(task) == [type |-> "user", agent |-> "YongHu", message |-> task]

\* Mutant: handleSubmit without currentMainMessageIndex.value = -1.
submitted_keepsIndex(A, task) ==
  [A EXCEPT !.error = "",
            !.messages = <<userMessage(task)>>,
            !.loading = TRUE,
            !.team = updateAgentStatus(A.team, "active")]

\* Mutant: handleSubmit without messages.value = [].
submitted_keepsMessages(A, task) ==
  [A EXCEPT !.error = "",
            !.messages = Append(@, userMessage(task)),
            !.index = -1,
            !.loading = TRUE,
            !.team = updateAgentStatus(A.team, "active")]

\* handleSubmit up to the call of fetchStreamData, and fetchStreamData's
\* loading.value = true.
submitted(A, task) ==
  [A EXCEPT !.error = "",
            !.messages = <<userMessage(task)>>,
            !.index = -1,
            !.loading = TRUE,
            !.team = updateAgentStatus(A.team, "active")]

\* Mutant: the outer catch without loading.value = false.
caught_keepsLoading(A, err) ==
  [A EXCEPT !.error = err,
            !.team = updateAgentStatus(A.team, "idle"),
            !.index = -1]

\* The outer catch of fetchStreamData.
caught(A, err) ==
  [A EXCEPT !.error = err,
            !.loading = FALSE,
            !.team = updateAgentStatus(A.team, "idle"),
            !.index = -1]

\* The handling of one parsed line up to await nextTick().
lineHandled(A, parsedData) ==
  LET S == aggregate([messages |-> A.messages, index |-> A.index], parsedData)
  IN  [A EXCEPT !.messages = S.messages, !.index = S.index]

\* Mutant: only an end event closes the run.
closeRun_endOnly(A, parsedData) ==
  IF parsedData.type = "end"
  THEN [A EXCEPT !.loading = FALSE,
                 !.team = updateAgentStatus(A.team, "idle"),
                 !.index = -1]
  ELSE A

\* Mutant: an error event closes the run as well.
closeRun_onError(A, parsedData) ==
  IF parsedData.type \in {"end", "final", "error"}
  THEN [A EXCEPT !.loading = FALSE,
                 !.team = updateAgentStatus(A.team, "idle"),
                 !.index = -1]
  ELSE A

\* if (parsedData.type === 'end' || parsedData.type === 'final') { ... }
closeRun(A, parsedData) ==
  IF parsedData.type \in {"end", "final"}
  THEN [A EXCEPT !.loading = FALSE,
                 !.team = updateAgentStatus(A.team, "idle"),
                 !.index = -1]
  ELSE A

\* The handling of one parsed line after await nextTick().
resumed(A, parsedData) ==
  LET T == updateAgentFromMessage([team |-> A.team, active |-> A.active],
                                  parsedData)
  IN  closeRun([A EXCEPT !.team = T.team, !.active = T.active], parsedData)

\* Mutant: the view shows every entry.
filteredMessages_unfiltered(msgs) == msgs

\* ChatDisplay: props.messages.filter(message => message.type !== 'user')
filteredMessages(msgs) == SelectSeq(msgs, LAMBDA message : message.type # "user")

\* Mutant: the input is never disabled.
inputDisabled_never(A) == FALSE

\* InputArea: the textarea and the send button are disabled while the
\* `disabled` prop, bound to loading, is true.
inputDisabled(A) == A.loading

(***************************************************************************)
(* Object identity.  Vue's change detection and any observer that holds an *)
(* entry see objects, not values: `identity` gives, for each entry of      *)
(* messages, the object it is.  An object is named by a number that no     *)
(* entry of the array has at the moment the object is created.             *)
(***************************************************************************)
\* A new object: { ... } or the result of JSON.parse.
created(ids) ==
  CHOOSE n \in 1..(Len(ids) + 1) :
    /\ \A i \in DOMAIN ids : ids[i] # n
    /\ \A m \in 1..(n - 1) : \E i \in DOMAIN ids : ids[i] = m

\* Mutant: currentMessage.message is assigned in place; no splice.
spliced_inPlace(ids, index) == ids

\* const newMessage = {...}; messages.value.splice(index, 1, newMessage)
spliced(ids, index) == [ids EXCEPT ![index + 1] = created(ids)]

\* The identities after the handling of one parsed line up to nextTick:
\* a push adds the parsed object, a merge puts a new object in the slot.
identified(ids, A, parsedData) ==
  IF parsedData.node # "supervisor" THEN ids
  ELSE IF parsedData.type \in {"thinking", "result", "final", "error", "status"}
  THEN IF A.index = -1
       THEN Append(ids, created(ids))
       ELSE IF A.index + 1 \in DOMAIN A.messages
            THEN spliced(ids, A.index)
            ELSE ids
  ELSE IF parsedData.type \in {"connection", "end"}
  THEN Append(ids, created(ids))
  ELSE ids

(***************************************************************************)
(* Actions.  JavaScript runs one handler at a time: a step that resumes a  *)
(* call needs running = 0, and the for loop over the lines of a chunk      *)
(* holds `running` until it suspends at an await.                          *)
(***************************************************************************)
Recording == env.name # "session"

\* The user sends a task: InputArea emits submit, App runs handleSubmit,
\* which calls fetchStreamData up to its await fetch(...).
handleSubmit(task) ==
  /\ running = 0
  /\ ~inputDisabled(App)
  /\ runs < env.runs
  /\ SetApp(submitted(App, task))
  /\ runs' = runs + 1
  /\ fetch' = [fetch EXCEPT ![runs + 1] = [NoCall EXCEPT !.pc = "fetch",
                                                         !.task = task]]
  /\ identity' = <<created(identity)>>
  /\ lastTask' = task
  /\ UNCHANGED <<running, net, env, delivered, received>>

\* fetch resolves with response.ok: getReader(), a new TextDecoder.
FetchOk(r) ==
  /\ running = 0
  /\ fetch[r].pc = "fetch"
  /\ fetch' = [fetch EXCEPT ![r].pc = "read", ![r].task = <<>>]
  /\ UNCHANGED <<app, runs, running, net, env, lastTask, delivered, received,
                 identity>>

\* fetch rejects, or the response is not ok: the outer catch.
FetchFailed(r) ==
  /\ running = 0
  /\ fetch[r].pc = "fetch"
  /\ \E err \in {"network error", "HTTP 500"} : SetApp(caught(App, err))
  /\ fetch' = [fetch EXCEPT ![r] = Returned]
  /\ UNCHANGED <<runs, running, net, env, lastTask, delivered, received,
                 identity>>

\* What the backend may send next on run r: one more line, or nothing when
\* bytes already sent are still unread.
Extensions(r) ==
  (IF net.sent < env.lines THEN LinesOf(env.name) ELSE {})
    \cup (IF net.rest[r] # <<>> THEN {<<>>} ELSE {})

CutPoints(all) == IF env.cut THEN 1..Len(all) ELSE {Len(all)}

\* reader.read() resolves with a chunk: decode, buffer += chunk, split.
Read(r) ==
  /\ running = 0
  /\ fetch[r].pc = "read"
  /\ \E ext \in Extensions(r) :
       LET all == net.rest[r] \o ext
       IN  \E k \in CutPoints(all) :
             LET value == SubSeq(all, 1, k)
                 d == decode(fetch[r].pending, value)
                 sp == splitBuffer(fetch[r].buffer \o d.text)
             IN  /\ fetch' = [fetch EXCEPT ![r].pc = "loop",
                                           ![r].pending = d.pending,
                                           ![r].buffer = fetch[r].buffer \o d.text,
                                           ![r].lines = sp.lines,
                                           ![r].lastLine = sp.lastLine]
                 /\ net' = [net EXCEPT !.rest[r] = SubSeq(all, k + 1, Len(all)),
                                       !.sent = @ + (IF ext = <<>> THEN 0 ELSE 1)]
                 /\ delivered' =
                      IF Recording
                      THEN [delivered EXCEPT
                              ![r].bytes = @ \o value,
                              ![r].carried =
                                 \/ @
                                 \/ /\ fetch[r].buffer \o fetch[r].pending # <<>>
                                    /\ sp.lines # <<>>
                                    /\ parseLine(Head(sp.lines)).ok]
                      ELSE delivered
  /\ running' = r
  /\ UNCHANGED <<app, runs, env, lastTask, received, identity>>

\* One iteration of for (const line of lines): a line that yields no event
\* is skipped; an event is merged into the transcript and the call suspends
\* at await nextTick().
LoopLine(r) ==
  /\ running = r
  /\ fetch[r].pc = "loop"
  /\ fetch[r].lines # <<>>
  /\ LET p == parseLine(Head(fetch[r].lines))
     IN  IF p.ok
         THEN /\ SetApp(lineHandled(App, p.value))
              /\ identity' = identified(identity, App, p.value)
              /\ fetch' = [fetch EXCEPT ![r].pc = "tick",
                                        ![r].lines = Tail(@),
                                        ![r].parsedData = p.value]
              /\ running' = 0
              /\ received' = [received EXCEPT ![r] =
                                IF Recording THEN Append(@, p.value) ELSE @]
         ELSE /\ fetch' = [fetch EXCEPT ![r].lines = Tail(@)]
              /\ UNCHANGED <<app, identity, running, received>>
  /\ UNCHANGED <<runs, net, env, lastTask, delivered>>

\* nextTick resolves: updateAgentFromMessage, the end/final handling, and
\* back into the for loop.
Tick(r) ==
  /\ running = 0
  /\ fetch[r].pc = "tick"
  /\ SetApp(resumed(App, fetch[r].parsedData))
  /\ fetch' = [fetch EXCEPT ![r].pc = "loop", ![r].parsedData = NoEvent]
  /\ running' = r
  /\ UNCHANGED <<runs, net, env, lastTask, delivered, received,
                 identity>>

\* The for loop is over: buffer = lastLine, and await reader.read().
LoopEnd(r) ==
  /\ running = r
  /\ fetch[r].pc = "loop"
  /\ fetch[r].lines = <<>>
  /\ fetch' = [fetch EXCEPT ![r].pc = "read",
                            ![r].buffer = fetch[r].lastLine,
                            ![r].lastLine = <<>>]
  /\ running' = 0
  /\ UNCHANGED <<app, runs, net, env, lastTask, delivered, received,
                 identity>>

\* Mutant: on done the carry-over is parsed as a last line and handled.
ReadDone_flushes(r) ==
  /\ running = 0
  /\ fetch[r].pc = "read"
  /\ net.rest[r] = <<>>
  /\ LET p == parseLine(fetch[r].buffer)
     IN  IF p.ok
         THEN /\ SetApp(resumed(lineHandled(App, p.value), p.value))
              /\ received' = [received EXCEPT ![r] = Append(@, p.value)]
         ELSE UNCHANGED <<app, received>>
  /\ fetch' = [fetch EXCEPT ![r] = Returned]
  /\ UNCHANGED <<runs, running, net, env, lastTask, delivered, identity>>

\* reader.read() resolves with done: break, and the call returns.
ReadDone(r) ==
  /\ running = 0
  /\ fetch[r].pc = "read"
  /\ net.rest[r] = <<>>
  /\ fetch' = [fetch EXCEPT ![r] = Returned]
  /\ UNCHANGED <<app, runs, running, net, env, lastTask, delivered, received,
                 identity>>

\* reader.read() rejects: the outer catch.
ReadFailed(r) ==
  /\ running = 0
  /\ fetch[r].pc = "read"
  /\ SetApp(caught(App, "network error"))
  /\ fetch' = [fetch EXCEPT ![r] = Returned]
  /\ UNCHANGED <<runs, running, net, env, lastTask, delivered, received,
                 identity>>

\* The user closes the error modal: error = ''.
CloseError ==
  /\ running = 0
  /\ error # ""
  /\ error' = ""
  /\ UNCHANGED <<messages, currentMainMessageIndex, loading,
                 currentActiveAgent, agentTeam, runs, fetch, running, net,
                 env, lastTask, delivered, received,
                 identity>>

Next ==
  \/ \E task \in Tasks : handleSubmit(task)
  \/ \E r \in RunIds : FetchOk(r)
  \/ \E r \in RunIds : FetchFailed(r)
  \/ \E r \in RunIds : Read(r)
  \/ \E r \in RunIds : LoopLine(r)
  \/ \E r \in RunIds : Tick(r)
  \/ \E r \in RunIds : LoopEnd(r)
  \/ \E r \in RunIds : ReadDone(r)
  \/ \E r \in RunIds : ReadFailed(r)
  \/ CloseError

Spec == Init /\ [][Next]_vars

SpecEvents == InitEvents /\ [][Next]_vars

SpecMerge == InitMerge /\ [][Next]_vars

SpecMix == InitMix /\ [][Next]_vars

SpecWire == InitWire /\ [][Next]_vars

\* The event loop runs what is ready: the synchronous for loop goes on and
\* a resolved nextTick resumes its call.  What the network and the user do
\* (chunks, close, faults, submits) is not forced.
Scheduling ==
  \A r \in RunIds :
    WF_vars(LoopLine(r)) /\ WF_vars(Tick(r)) /\ WF_vars(LoopEnd(r))

SpecEventsFair == InitEvents /\ [][Next]_vars /\ Scheduling

(***************************************************************************)
(* Steps of one call, as seen from a pair of states.                       *)
(***************************************************************************)
\* Call r handles an event line up to await nextTick().
Handles(r) ==
  /\ running = r
  /\ fetch[r].pc = "loop"
  /\ fetch'[r].pc = "tick"

\* Call r resumes after await nextTick().
Resumes(r) == fetch[r].pc = "tick" /\ fetch'[r].pc = "loop"

Mergeable == {"thinking", "result", "final", "error", "status"}

(***************************************************************************)
(* C1.  No event of an earlier run changes the Session of the current run: *)
(* when a call other than the latest handles an event, before or after its *)
(* await nextTick(), messages, currentMainMessageIndex, loading and        *)
(* agentTeam stay unchanged.                                               *)
(***************************************************************************)
C1_NoCrossRunLeak ==
  [][\A r \in RunIds :
       (r # runs /\ (Handles(r) \/ Resumes(r))) =>
         UNCHANGED <<messages, currentMainMessageIndex, loading, agentTeam>>]_vars

(***************************************************************************)
(* C2.  At most one call of fetchStreamData is live at any moment.         *)
(***************************************************************************)
C2_SingleLiveReader == Cardinality({r \in RunIds : Live(r)}) <= 1

(***************************************************************************)
(* C3.  currentMainMessageIndex is -1 or the index of an entry of messages *)
(* whose kind is thinking, result, final, error or status.                 *)
(***************************************************************************)
C3_MainSlotValid ==
  \/ currentMainMessageIndex = -1
  \/ /\ currentMainMessageIndex \in 0..(Len(messages) - 1)
     /\ messages[currentMainMessageIndex + 1].type \in Mergeable

\* A second run has opened its main slot while the first call is still live.
C3_Witness ==
  /\ runs = 2
  /\ Live(1)
  /\ currentMainMessageIndex = 1
  /\ Len(messages) = 3
  /\ messages[3].type \in {"connection", "end"}

(***************************************************************************)
(* C10.  After a submit, messages holds the user entry recording the       *)
(* submitted task, and the rendered view holds no entry of kind user.      *)
(***************************************************************************)
C10_UserRecordedNotShown ==
  runs > 0 =>
    /\ Len(messages) >= 1
    /\ messages[1] = userMessage(lastTask)
    /\ \A i \in DOMAIN filteredMessages(messages) :
         filteredMessages(messages)[i].type # "user"
    /\ Len(filteredMessages(messages)) = Len(messages) - 1

\* The second run's task has replaced the first, with events shown.
C10_Witness ==
  /\ runs = 2
  /\ lastTask = <<"t", "2">>
  /\ messages[1].message = <<"t", "2">>
  /\ Len(filteredMessages(messages)) = 2

(***************************************************************************)
(* C6.  Once an end event has been handled, whatever agent it names, every *)
(* agent is idle, currentActiveAgent is empty and                          *)
(* currentMainMessageIndex is -1.                                          *)
(***************************************************************************)
C6_EndResetsAll ==
  [][\A r \in RunIds :
       (Resumes(r) /\ fetch[r].parsedData.type = "end") =>
         /\ \A a \in AgentNames : agentTeam'[a].status = "idle"
         /\ currentActiveAgent' = ""
         /\ currentMainMessageIndex' = -1]_vars

(***************************************************************************)
(* C7.  A final event from the supervisor node that finds the main slot    *)
(* open is merged into it while the slot stays open and loading stays as   *)
(* it was; only the resumption after nextTick, for a final or an end       *)
(* event, sets currentMainMessageIndex to -1 and loading to false, keeping *)
(* the merged text; and a thinking, result or status event from the        *)
(* supervisor node that finds no main slot open appends a fresh entry and  *)
(* opens it.                                                               *)
(***************************************************************************)
C7_Step(r) ==
  LET e == parseLine(Head(fetch[r].lines)).value
      i == currentMainMessageIndex + 1
      old == messages[i].message
      sep == IF endsWith(old, NL) THEN <<>> ELSE <<NL, NL>>
  IN  /\ (/\ Handles(r)
          /\ e.node = "supervisor"
          /\ e.type = "final"
          /\ currentMainMessageIndex # -1)
         => /\ messages' = [messages EXCEPT ![i].message = old \o sep \o e.message]
            /\ currentMainMessageIndex' = currentMainMessageIndex
            /\ loading' = loading
      /\ (Resumes(r) /\ fetch[r].parsedData.type \in {"final", "end"})
         => /\ currentMainMessageIndex' = -1
            /\ loading' = FALSE
            /\ messages' = messages
      /\ (/\ Handles(r)
          /\ e.node = "supervisor"
          /\ e.type \in {"thinking", "result", "status"}
          /\ currentMainMessageIndex = -1)
         => /\ messages' = Append(messages, e)
            /\ currentMainMessageIndex' = Len(messages)

C7_CloseAfterMerge == [][\A r \in RunIds : C7_Step(r)]_vars

\* thinking, then final merged into its slot and the slot closed, then a
\* thinking event that opened a fresh entry.
C7_Witness ==
  /\ runs = 1
  /\ Len(messages) = 3
  /\ messages[2].type = "thinking"
  /\ messages[2].message = <<"x", NL, NL, "x">>
  /\ messages[3].type = "thinking"
  /\ messages[3].message = <<"x">>
  /\ currentMainMessageIndex = 2
  /\ loading = FALSE

(***************************************************************************)
(* Fragments of a run of thinking events, and ways of joining them.        *)
(***************************************************************************)
Frags(r) == [i \in 1..Len(received[r]) |-> received[r][i].message]

OnlyThinking(r) ==
  /\ received[r] # <<>>
  /\ \A i \in 1..Len(received[r]) :
       received[r][i].type = "thinking" /\ received[r][i].node = "supervisor"

RECURSIVE JoinNL(_)
JoinNL(fs) ==
  IF Len(fs) = 1 THEN fs[1] ELSE fs[1] \o <<NL>> \o JoinNL(Tail(fs))

StripNL(f) == IF endsWith(f, NL) THEN SubSeq(f, 1, Len(f) - 1) ELSE f

\* One trailing newline removed from every fragment but the last.
StripInner(fs) ==
  [i \in 1..Len(fs) |-> IF i < Len(fs) THEN StripNL(fs[i]) ELSE fs[i]]

\* Each further fragment appended, after a newline unless the text so far
\* ends in one.
RECURSIVE FoldFrom(_, _)
FoldFrom(acc, fs) ==
  IF fs = <<>> THEN acc
  ELSE FoldFrom(acc \o (IF endsWith(acc, NL) THEN <<>> ELSE <<NL>>) \o Head(fs),
                Tail(fs))

Fold(fs) == FoldFrom(fs[1], Tail(fs))

NoDoubledNL(t) == \A i \in 1..(Len(t) - 1) : ~(t[i] = NL /\ t[i + 1] = NL)

(***************************************************************************)
(* C4 as stated.  After any sequence of thinking events from the           *)
(* supervisor node, the transcript holds one entry besides the user entry, *)
(* whose text is the fragments joined by single newlines: the fragments as *)
(* they are or, so that a fragment's own trailing newline is not doubled,  *)
(* each but the last without its trailing newline.                         *)
(***************************************************************************)
C4_JoinedBySingleNewlines ==
  OnlyThinking(1) =>
    /\ Len(messages) = 2
    /\ \/ messages[2].message = JoinNL(Frags(1))
       \/ messages[2].message = JoinNL(StripInner(Frags(1)))

(***************************************************************************)
(* C4 amended.  After any sequence of thinking events from the supervisor  *)
(* node, the transcript holds one thinking entry besides the user entry;   *)
(* its text is the first fragment followed by each further fragment,       *)
(* preceded by one newline unless the text so far already ends in a        *)
(* newline.  When every fragment but the last is non-empty this is the     *)
(* fragments, each but the last without its one trailing newline, joined   *)
(* by single newlines; it has no doubled newline when no fragment starts   *)
(* with a newline or holds a doubled one; "x" then "y" give "x\ny".        *)
(***************************************************************************)
C4_FoldedWithSingleNewlines ==
  OnlyThinking(1) =>
    LET fs == Frags(1)
        text == messages[2].message
    IN  /\ Len(messages) = 2
        /\ messages[2].type = "thinking"
        /\ text = Fold(fs)
        /\ (\A i \in 1..(Len(fs) - 1) : fs[i] # <<>>)
             => text = JoinNL(StripInner(fs))
        /\ (\A i \in 1..Len(fs) : ~startsWith(fs[i], <<NL>>) /\ NoDoubledNL(fs[i]))
             => NoDoubledNL(text)
        /\ fs = <<<<"x">>, <<"y">>>> => text = <<"x", NL, "y">>

\* Three fragments, the first ending in a newline, merged into one entry.
C4_Witness ==
  /\ OnlyThinking(1)
  /\ Frags(1) = <<<<"x", NL>>, <<"x">>, <<"y">>>>
  /\ messages[2].message = <<"x", NL, "x", NL, "y">>

(***************************************************************************)
(* C5.  A result or final event from the supervisor node that finds the    *)
(* main slot open appends its text to the slot, after two newlines when    *)
(* the slot's text does not end in a newline and after nothing when it     *)
(* does; one that finds no main slot open appends a new entry and opens    *)
(* it as the main slot.                                                    *)
(***************************************************************************)
C5_Step(r) ==
  LET e == parseLine(Head(fetch[r].lines)).value
      i == currentMainMessageIndex + 1
      old == messages[i].message
      sep == IF endsWith(old, NL) THEN <<>> ELSE <<NL, NL>>
  IN  (Handles(r) /\ e.node = "supervisor" /\ e.type \in {"result", "final"})
      => IF currentMainMessageIndex # -1
         THEN /\ messages' = [messages EXCEPT ![i].message = old \o sep \o e.message]
              /\ currentMainMessageIndex' = currentMainMessageIndex
         ELSE /\ messages' = Append(messages, e)
              /\ currentMainMessageIndex' = Len(messages)

C5_ResultAppends == [][\A r \in RunIds : C5_Step(r)]_vars

\* A result opened the slot with "x\n", a second was appended after nothing
\* and a third after two newlines.
C5_Witness ==
  /\ Len(received[1]) = 3
  /\ \A i \in 1..3 : received[1][i].type = "result"
  /\ Len(messages) = 2
  /\ messages[2].message = <<"x", NL, "y", NL, NL, "x">>
  /\ currentMainMessageIndex = 1

(***************************************************************************)
(* C8.  A data line whose trimmed payload does not end in } is dropped:    *)
(* the application state is unchanged and the loop goes on to the next     *)
(* line.                                                                   *)
(***************************************************************************)
C8_Step(r) ==
  LET line == Head(fetch[r].lines)
  IN  (/\ running = r
       /\ fetch[r].pc = "loop"
       /\ fetch[r].lines # <<>>
       /\ fetch'[r] # fetch[r]
       /\ trim(line) # <<>>
       /\ startsWith(line, DataPrefix)
       /\ ~endsWith(trim(slice(line, 6)), "}"))
      => /\ UNCHANGED app
         /\ fetch'[r].pc = "loop"
         /\ fetch'[r].lines = Tail(fetch[r].lines)
         /\ running' = r

C8_IncompleteDropped == [][\A r \in RunIds : C8_Step(r)]_vars

\* The stream began with a truncated line; only the line after it left an
\* entry.
C8_Witness ==
  /\ startsWith(delivered[1].bytes, utf8(TruncatedLine))
  /\ Len(received[1]) = 1
  /\ Len(messages) = 2
  /\ fetch[1].pc = "read"

(***************************************************************************)
(* C9.  The state depends only on the concatenation of the chunks: when    *)
(* the call awaits the next chunk, the application state, the carry-over   *)
(* buffer and the decoder's held bytes are those of a call that got all    *)
(* the bytes read so far in a single chunk.                                *)
(***************************************************************************)
AppAtMount ==
  [messages |-> <<>>, index |-> -1, loading |-> FALSE, error |-> "",
   active |-> "",
   team |-> [a \in AgentNames |-> [status |-> "idle", active |-> FALSE]]]

RECURSIVE runLines(_, _)
runLines(A, lines) ==
  IF lines = <<>> THEN A
  ELSE LET p == parseLine(Head(lines))
       IN  runLines(IF p.ok THEN resumed(lineHandled(A, p.value), p.value) ELSE A,
                    Tail(lines))

InOneChunk(task, bytes) ==
  LET d == decode(<<>>, bytes)
      sp == splitBuffer(d.text)
  IN  [app |-> runLines(submitted(AppAtMount, task), sp.lines),
       buffer |-> sp.lastLine,
       pending |-> d.pending]

C9_ChunkingIrrelevant ==
  \A r \in RunIds :
    (fetch[r].pc = "read" /\ running = 0) =>
      LET one == InOneChunk(lastTask, delivered[r].bytes)
      IN  /\ App = one.app
          /\ fetch[r].buffer = one.buffer
          /\ fetch[r].pending = one.pending

\* An event line that arrived in more than one chunk has been handled.
C9_Witness ==
  /\ delivered[1].carried
  /\ fetch[1].pc = "read"
  /\ received[1] # <<>>
  /\ Len(messages) >= 2

(***************************************************************************)
(* The event a step of call r is about: the line at the head of the loop   *)
(* when the call handles it, parsedData when the call resumes.             *)
(***************************************************************************)
Handled(r) == parseLine(Head(fetch[r].lines)).value

Resumed(r) == fetch[r].parsedData

(***************************************************************************)
(* C11.  An event whose node is not supervisor, of any kind, final and end *)
(* included, leaves messages and currentMainMessageIndex unchanged, both   *)
(* before and after its await nextTick().                                  *)
(***************************************************************************)
C11_Step(r) ==
  /\ (Handles(r) /\ Handled(r).node # "supervisor")
       => UNCHANGED <<messages, currentMainMessageIndex>>
  /\ (Resumes(r) /\ Resumed(r).node # "supervisor")
       => UNCHANGED <<messages, currentMainMessageIndex>>

C11_OtherNodesNoOp == [][\A r \in RunIds : C11_Step(r)]_vars

(***************************************************************************)
(* C12.  The state a submit leaves, before any event of the new run is     *)
(* handled: messages holds the user entry of the submitted task and        *)
(* nothing else, currentMainMessageIndex is -1, loading is true and every  *)
(* agent is active; the new call awaits fetch.                             *)
(***************************************************************************)
C12_FreshAfterSubmit ==
  [][runs' = runs + 1 =>
       /\ messages' = <<userMessage(lastTask')>>
       /\ currentMainMessageIndex' = -1
       /\ loading' = TRUE
       /\ \A a \in AgentNames :
            agentTeam'[a].status = "active" /\ agentTeam'[a].active
       /\ fetch'[runs'].pc = "fetch"
       /\ received'[runs'] = <<>>]_vars

\* The second submit has just replaced a first run that is still live.
C12_Witness ==
  /\ runs = 2
  /\ Live(1)
  /\ fetch[2].pc = "fetch"
  /\ messages = <<userMessage(<<"t", "2">>)>>
  /\ currentMainMessageIndex = -1
  /\ loading
  /\ \A a \in AgentNames : agentTeam[a].status = "active"

(***************************************************************************)
(* C13.  A transport fault (fetch rejects, the response is not ok, or a    *)
(* read rejects) ends the call: error is set, loading is false, every      *)
(* agent is idle and currentMainMessageIndex is -1.                        *)
(***************************************************************************)
C13_FaultEndsRun ==
  [][\A r \in RunIds :
       (FetchFailed(r) \/ ReadFailed(r)) =>
         /\ error' # ""
         /\ loading' = FALSE
         /\ \A a \in AgentNames :
              agentTeam'[a].status = "idle" /\ ~agentTeam'[a].active
         /\ currentMainMessageIndex' = -1
         /\ fetch'[r].pc = "closed"]_vars

\* A read failed while the main slot was open on a thinking entry.
C13_Witness ==
  /\ runs = 1
  /\ fetch[1].pc = "closed"
  /\ error = "network error"
  /\ messages = <<userMessage(lastTask),
                  [type |-> "thinking", node |-> "supervisor",
                   agent |-> "ZhuGuan", message |-> <<"x">>]>>
  /\ currentMainMessageIndex = -1
  /\ ~loading
  /\ \A a \in AgentNames : agentTeam[a].status = "idle"

(***************************************************************************)
(* C14.  Every run returns to idle: once a call of fetchStreamData has     *)
(* returned, because the stream closed or because of a fault, loading      *)
(* eventually becomes false.                                               *)
(***************************************************************************)
C14_RunEndsIdle ==
  \A r \in RunIds : (fetch[r].pc = "closed") ~> (loading = FALSE)

(***************************************************************************)
(* C15.  Once a call has fully handled an end or final event, no later     *)
(* event of the same stream changes messages, currentMainMessageIndex,     *)
(* loading, agentTeam or currentActiveAgent.                               *)
(***************************************************************************)
\* An end or final is among the first n events call r has logged.
Finished(r, n) ==
  \E i \in 1..n : received[r][i].type \in {"end", "final"}

C15_Step(r) ==
  (\/ Handles(r) /\ Finished(r, Len(received[r]))
   \/ Resumes(r) /\ Finished(r, Len(received[r]) - 1))
  => UNCHANGED <<messages, currentMainMessageIndex, loading, agentTeam,
                 currentActiveAgent>>

C15_NothingAfterEnd == [][\A r \in RunIds : C15_Step(r)]_vars

(***************************************************************************)
(* C16.  When a result or final event naming an agent of the roster has    *)
(* been fully handled, that agent's status is completed; after a final     *)
(* currentActiveAgent is empty and after a result it is unchanged.         *)
(***************************************************************************)
C16_Step(r) ==
  LET e == Resumed(r)
  IN  (Resumes(r) /\ e.type \in {"result", "final"} /\ e.agent \in AgentNames)
      => /\ agentTeam'[e.agent].status = "completed"
         /\ e.type = "final" => currentActiveAgent' = ""
         /\ e.type = "result" => currentActiveAgent' = currentActiveAgent

C16_ResultCompletes == [][\A r \in RunIds : C16_Step(r)]_vars

(***************************************************************************)
(* C17.  A status event naming an agent of the roster sets that agent to   *)
(* active and currentActiveAgent to its name, and leaves every other       *)
(* agent as it was.                                                        *)
(***************************************************************************)
C17_Step(r) ==
  LET e == Resumed(r)
  IN  (Resumes(r) /\ e.type = "status" /\ e.agent \in AgentNames)
      => /\ agentTeam'[e.agent] = [status |-> "active", active |-> TRUE]
         /\ currentActiveAgent' = e.agent
         /\ \A a \in AgentNames \ {e.agent} : agentTeam'[a] = agentTeam[a]

C17_StatusActivates == [][\A r \in RunIds : C17_Step(r)]_vars

\* After a final had set every agent idle, a status event naming ZhuGuan
\* made ZhuGuan alone active.
C17_Witness ==
  /\ Len(received[1]) = 2
  /\ received[1][1].type = "final"
  /\ received[1][2].type = "status"
  /\ received[1][2].agent = "ZhuGuan"
  /\ fetch[1].pc # "tick"
  /\ agentTeam["ZhuGuan"] = [status |-> "active", active |-> TRUE]
  /\ agentTeam["SouSuoQi"] = [status |-> "idle", active |-> FALSE]
  /\ currentActiveAgent = "ZhuGuan"

(***************************************************************************)
(* C18.  An error event naming an agent of the roster sets that agent to   *)
(* idle and currentActiveAgent to empty, and leaves every other agent as   *)
(* it was.                                                                 *)
(***************************************************************************)
C18_Step(r) ==
  LET e == Resumed(r)
  IN  (Resumes(r) /\ e.type = "error" /\ e.agent \in AgentNames)
      => /\ agentTeam'[e.agent] = [status |-> "idle", active |-> FALSE]
         /\ currentActiveAgent' = ""
         /\ \A a \in AgentNames \ {e.agent} : agentTeam'[a] = agentTeam[a]

C18_ErrorIdles == [][\A r \in RunIds : C18_Step(r)]_vars

\* A status event had made ZhuGuan the active agent; an error event naming
\* ZhuGuan set it idle and cleared the name, the other agent still active.
C18_Witness ==
  /\ Len(received[1]) = 2
  /\ received[1][1].type = "status"
  /\ received[1][1].agent = "ZhuGuan"
  /\ received[1][2].type = "error"
  /\ received[1][2].agent = "ZhuGuan"
  /\ fetch[1].pc # "tick"
  /\ agentTeam["ZhuGuan"] = [status |-> "idle", active |-> FALSE]
  /\ agentTeam["SouSuoQi"] = [status |-> "active", active |-> TRUE]
  /\ currentActiveAgent = ""

(***************************************************************************)
(* C19.  An event that names no agent of the roster (an event without      *)
(* agent counts as the default name) and whose kind is not end leaves      *)
(* agentTeam and currentActiveAgent unchanged when it is handled, before   *)
(* and after its await nextTick(); and agentTeam never holds an agent      *)
(* outside the roster.                                                     *)
(***************************************************************************)
Unknown(e) ==
  (IF e.agent # "" THEN e.agent ELSE DefaultAgent) \notin AgentNames

C19_Step(r) ==
  /\ (Handles(r) /\ Unknown(Handled(r)) /\ Handled(r).type # "end")
       => UNCHANGED <<agentTeam, currentActiveAgent>>
  /\ (Resumes(r) /\ Unknown(Resumed(r)) /\ Resumed(r).type # "end")
       => UNCHANGED <<agentTeam, currentActiveAgent>>
  /\ DOMAIN agentTeam' = AgentNames

C19_UnknownAgentNoOp == [][\A r \in RunIds : C19_Step(r)]_vars

(***************************************************************************)
(* C20.  An event is handled without suspension: whenever no handler is    *)
(* executing, no call of fetchStreamData is between the transcript update  *)
(* of an event and that event's agent update and end/final handling, so    *)
(* nothing can run in between.                                             *)
(***************************************************************************)
C20_NoSuspensionInsideEvent ==
  running = 0 => \A r \in RunIds : fetch[r].pc # "tick"

(***************************************************************************)
(* C21.  Within a run messages only grows at its end: every step other     *)
(* than a submit keeps the entries there are, in their order, appends at   *)
(* most one, the event being handled, and leaves every entry other than    *)
(* the one at currentMainMessageIndex exactly as it was.                   *)
(***************************************************************************)
C21_AppendConsistent ==
  [][runs' = runs =>
       /\ Len(messages') \in {Len(messages), Len(messages) + 1}
       /\ Len(messages') = Len(messages) + 1 =>
            \E r \in RunIds :
              Handles(r) /\ messages'[Len(messages')] = Handled(r)
       /\ \A i \in DOMAIN messages :
            i # currentMainMessageIndex + 1 => messages'[i] = messages[i]]_vars

\* A thinking event was merged into the main slot while a connection entry
\* stood after it.
C21_Witness ==
  /\ runs = 1
  /\ Len(messages) = 3
  /\ messages[2].type = "thinking"
  /\ messages[2].message = <<"x", NL, "x">>
  /\ messages[3].type = "connection"
  /\ messages[3].message = <<"x">>
  /\ currentMainMessageIndex = 1

(***************************************************************************)
(* The merge of an event's text into the open main slot, as a step: the    *)
(* entry at currentMainMessageIndex gets `text` appended after `sep`,      *)
(* or after nothing when its text ends in a newline; the index stays.      *)
(***************************************************************************)
MergedWith(sep, text) ==
  LET i == currentMainMessageIndex + 1
      old == messages[i].message
  IN  /\ messages' = [messages EXCEPT ![i].message =
                        old \o (IF endsWith(old, NL) THEN <<>> ELSE sep) \o text]
      /\ currentMainMessageIndex' = currentMainMessageIndex

\* The event is appended as a new entry, which becomes the main slot.
OpenedWith(e) ==
  /\ messages' = Append(messages, e)
  /\ currentMainMessageIndex' = Len(messages)

(***************************************************************************)
(* C22.  A status event from the supervisor node acts on the transcript as *)
(* a thinking event with the same text does: with no main slot open it is  *)
(* appended as a new entry that becomes the main slot; with a main slot    *)
(* open its text is appended to the slot, after a single newline unless    *)
(* the slot's text already ends in a newline.                              *)
(***************************************************************************)
C22_Step(r) ==
  LET e == Handled(r)
      S == [messages |-> messages, index |-> currentMainMessageIndex]
      asThinking == thinkingBranch(S, [e EXCEPT !.type = "thinking"])
  IN  (Handles(r) /\ e.node = "supervisor" /\ e.type = "status")
      => /\ IF currentMainMessageIndex = -1
            THEN OpenedWith(e)
            ELSE MergedWith(<<NL>>, e.message)
         /\ currentMainMessageIndex' = asThinking.index
         /\ Len(messages') = Len(asThinking.messages)
         /\ \A i \in DOMAIN messages' :
              messages'[i].message = asThinking.messages[i].message

C22_StatusLikeThinking == [][\A r \in RunIds : C22_Step(r)]_vars

\* A status opened the slot with "y\n", a second was appended after nothing
\* and a third after one newline.
C22_Witness ==
  /\ Len(received[1]) = 3
  /\ \A i \in 1..3 : received[1][i].type = "status"
  /\ Len(messages) = 2
  /\ messages[2].type = "status"
  /\ messages[2].message = <<"y", NL, "x", NL, "x">>
  /\ currentMainMessageIndex = 1

(***************************************************************************)
(* C23 as stated.  An error event from the supervisor node merges as a     *)
(* result event does, and the text it contributes to the transcript is its *)
(* text prefixed with the error marker: into an open main slot that text   *)
(* is appended after two newlines, or after nothing when the slot's text   *)
(* ends in a newline; with no main slot open a new entry with that text    *)
(* is appended and becomes the main slot.                                  *)
(***************************************************************************)
C23_ErrorStep(r) ==
  LET e == Handled(r)
  IN  (Handles(r) /\ e.node = "supervisor" /\ e.type = "error")
      => IF currentMainMessageIndex # -1
         THEN MergedWith(<<NL, NL>>, ErrorMarker \o e.message)
         ELSE OpenedWith([e EXCEPT !.message = ErrorMarker \o e.message])

C23_ErrorMarkedAlways == [][\A r \in RunIds : C23_ErrorStep(r)]_vars

(***************************************************************************)
(* C23 amended.  An error event from the supervisor node takes the same    *)
(* open-or-append decision as a result event.  Into an open main slot its  *)
(* text, prefixed with the error marker, is appended after two newlines,   *)
(* or after nothing when the slot's text ends in a newline.  With no main  *)
(* slot open the event itself is appended as a new entry of kind error,    *)
(* its text without the marker, and becomes the main slot.                 *)
(***************************************************************************)
C23_AmendedStep(r) ==
  LET e == Handled(r)
      S == [messages |-> messages, index |-> currentMainMessageIndex]
      asResult == resultBranch(S, [e EXCEPT !.type = "result"])
  IN  (Handles(r) /\ e.node = "supervisor" /\ e.type = "error")
      => /\ IF currentMainMessageIndex # -1
            THEN MergedWith(<<NL, NL>>, ErrorMarker \o e.message)
            ELSE OpenedWith(e)
         /\ currentMainMessageIndex' = asResult.index
         /\ Len(messages') = Len(asResult.messages)

C23_ErrorMarkedWhenAppended == [][\A r \in RunIds : C23_AmendedStep(r)]_vars

\* An error opened the slot unmarked with "y\n"; a second was appended
\* marked after nothing and a third marked after two newlines.
C23_Witness ==
  /\ Len(received[1]) = 3
  /\ \A i \in 1..3 : received[1][i].type = "error"
  /\ Len(messages) = 2
  /\ messages[2].type = "error"
  /\ messages[2].message =
       <<"y", NL>> \o ErrorMarker \o <<"x">> \o <<NL, NL>> \o ErrorMarker \o <<"x">>
  /\ currentMainMessageIndex = 1

(***************************************************************************)
(* C30.  An error event does not end the run: handling it leaves loading   *)
(* as it is and, from the supervisor node, leaves the main slot open or    *)
(* opens it; its resumption after nextTick leaves loading and              *)
(* currentMainMessageIndex as they are, so the next thinking, result or    *)
(* status event merges into the same slot.                                 *)
(***************************************************************************)
C30_Step(r) ==
  /\ (Handles(r) /\ Handled(r).type = "error")
       => /\ loading' = loading
          /\ Handled(r).node = "supervisor" =>
               /\ currentMainMessageIndex' # -1
               /\ currentMainMessageIndex # -1 =>
                    currentMainMessageIndex' = currentMainMessageIndex
  /\ (Resumes(r) /\ Resumed(r).type = "error")
       => /\ loading' = loading
          /\ currentMainMessageIndex' = currentMainMessageIndex

C30_ErrorKeepsRunning == [][\A r \in RunIds : C30_Step(r)]_vars

\* A thinking event opened the slot, an error was merged into it, and the
\* result that followed was merged into the same slot, the run still on.
C30_Witness ==
  /\ Len(received[1]) = 3
  /\ received[1][1].type = "thinking"
  /\ received[1][2].type = "error"
  /\ received[1][3].type = "result"
  /\ fetch[1].pc = "read"
  /\ Len(messages) = 2
  /\ messages[2].message =
       <<"x", NL, NL>> \o ErrorMarker \o <<"y", NL, "x">>
  /\ currentMainMessageIndex = 1
  /\ loading

(***************************************************************************)
(* C24.  A connection or end event from the supervisor node appends        *)
(* exactly one new entry, the event, whether or not a main slot is open;   *)
(* it does not open a main slot (currentMainMessageIndex stays, or goes to *)
(* -1 when the end event is resumed) and the entry at the main slot keeps  *)
(* its text.                                                               *)
(***************************************************************************)
C24_Step(r) ==
  /\ (/\ Handles(r)
      /\ Handled(r).node = "supervisor"
      /\ Handled(r).type \in {"connection", "end"})
       => /\ messages' = Append(messages, Handled(r))
          /\ currentMainMessageIndex' = currentMainMessageIndex
  /\ (/\ Resumes(r)
      /\ Resumed(r).node = "supervisor"
      /\ Resumed(r).type \in {"connection", "end"})
       => /\ messages' = messages
          /\ currentMainMessageIndex' \in {currentMainMessageIndex, -1}

C24_MarkersStandAlone == [][\A r \in RunIds : C24_Step(r)]_vars

\* A connection event arrived while the main slot was open on a thinking
\* entry: it stands after it, and the slot is still that entry.
C24_Witness ==
  /\ runs = 1
  /\ fetch[1].pc = "read"
  /\ Len(messages) = 3
  /\ messages[2].type = "thinking"
  /\ messages[2].message = <<"x">>
  /\ messages[3].type = "connection"
  /\ currentMainMessageIndex = 1

(***************************************************************************)
(* C25.  A data line that ends in } and is not JSON is skipped and the run *)
(* goes on: the application state (messages, index, loading, error,        *)
(* agents) is unchanged by the line and the loop moves to the next line.   *)
(***************************************************************************)
C25_Step(r) ==
  LET line == Head(fetch[r].lines)
  IN  (/\ running = r
       /\ fetch[r].pc = "loop"
       /\ fetch[r].lines # <<>>
       /\ fetch'[r] # fetch[r]
       /\ isDataLine(line)
       /\ isComplete(jsonDataOf(line))
       /\ ~JSONparse(jsonDataOf(line)).ok)
      => /\ UNCHANGED app
         /\ fetch'[r].pc = "loop"
         /\ fetch'[r].lines = Tail(fetch[r].lines)
         /\ running' = r

C25_GarbledSkipped == [][\A r \in RunIds : C25_Step(r)]_vars

\* The stream began with a line that is not JSON; the event line after it
\* was handled, and the run is still on.
C25_Witness ==
  /\ startsWith(delivered[1].bytes, utf8(GarbledLine))
  /\ Len(received[1]) = 1
  /\ Len(messages) = 2
  /\ fetch[1].pc = "read"
  /\ loading
  /\ error = ""

(***************************************************************************)
(* C28.  An event from the supervisor node whose kind has no branch        *)
(* (decomposition, assignment, execution, aggregation, user, unknown)      *)
(* changes nothing: messages, currentMainMessageIndex, loading, agentTeam  *)
(* and currentActiveAgent are unchanged before and after its await         *)
(* nextTick(), and no entry of such a kind is ever in messages besides the *)
(* user entry of the submit.                                               *)
(***************************************************************************)
Branched == {"thinking", "result", "final", "error", "status", "connection",
             "end"}

C28_Step(r) ==
  /\ (Handles(r) /\ Handled(r).node = "supervisor"
                 /\ Handled(r).type \notin Branched)
       => UNCHANGED <<messages, currentMainMessageIndex, loading, agentTeam,
                      currentActiveAgent>>
  /\ (Resumes(r) /\ Resumed(r).node = "supervisor"
                 /\ Resumed(r).type \notin Branched)
       => UNCHANGED <<messages, currentMainMessageIndex, loading, agentTeam,
                      currentActiveAgent>>
  /\ \A i \in 2..Len(messages') : messages'[i].type \in Branched

C28_OtherKindsIgnored == [][\A r \in RunIds : C28_Step(r)]_vars

\* A status event made ZhuGuan the active agent and opened the slot; the
\* decomposition event by ZhuGuan that followed left all of it as it was.
C28_Witness ==
  /\ Len(received[1]) = 2
  /\ received[1][1].type = "status"
  /\ received[1][1].node = "supervisor"
  /\ received[1][1].agent = "ZhuGuan"
  /\ received[1][2].type = "decomposition"
  /\ received[1][2].node = "supervisor"
  /\ received[1][2].agent = "ZhuGuan"
  /\ fetch[1].pc = "read"
  /\ Len(messages) = 2
  /\ currentMainMessageIndex = 1
  /\ currentActiveAgent = "ZhuGuan"
  /\ loading

(***************************************************************************)
(* C29.  A merge changes only the text of the main-slot entry: every other *)
(* field (its kind, its agent, and whatever else the opening event         *)
(* carried) stays that of the event that opened the slot, so a result,     *)
(* final, error or status merged into a slot opened by a thinking event    *)
(* leaves an entry of kind thinking.                                       *)
(***************************************************************************)
C29_Step(r) ==
  LET i == currentMainMessageIndex + 1
  IN  (Handles(r) /\ currentMainMessageIndex # -1)
      => /\ DOMAIN messages'[i] = DOMAIN messages[i]
         /\ \A f \in DOMAIN messages[i] \ {"message"} :
              messages'[i][f] = messages[i][f]

C29_MergeKeepsHeader == [][\A r \in RunIds : C29_Step(r)]_vars

\* A thinking event by ZhuGuan opened the slot and an error event without
\* agent was merged into it: the entry is still ZhuGuan's thinking entry.
C29_Witness ==
  /\ Len(received[1]) = 2
  /\ received[1][2].type = "error"
  /\ received[1][2].agent = ""
  /\ Len(messages) = 2
  /\ messages[2].type = "thinking"
  /\ messages[2].agent = "ZhuGuan"
  /\ messages[2].message = <<"x", NL, NL>> \o ErrorMarker \o <<"x">>

(***************************************************************************)
(* C26.  When reader.read() resolves with done, the carry-over buffer is   *)
(* dropped without being parsed: the step changes neither messages,        *)
(* currentMainMessageIndex, loading, agentTeam nor currentActiveAgent, and *)
(* logs no event, even when the buffer holds a complete event line that    *)
(* lacks only its newline.                                                 *)
(***************************************************************************)
C26_ResidueDiscarded ==
  [][\A r \in RunIds :
       ReadDone(r) =>
         /\ UNCHANGED <<messages, currentMainMessageIndex, loading, agentTeam,
                        currentActiveAgent>>
         /\ received'[r] = received[r]
         /\ fetch'[r].buffer = <<>>]_vars

\* The stream was one complete status line without its newline, then it
\* closed: no entry, no agent change, the run still marked as loading.
C26_Witness ==
  /\ fetch[1].pc = "closed"
  /\ error = ""
  /\ delivered[1].bytes = utf8(UnterminatedLine)
  /\ parseLine(decode(<<>>, delivered[1].bytes).text).ok
  /\ received[1] = <<>>
  /\ messages = <<userMessage(lastTask)>>
  /\ currentMainMessageIndex = -1
  /\ currentActiveAgent = ""
  /\ \A a \in AgentNames : agentTeam[a].status = "active"

(***************************************************************************)
(* C27.  Every merge into the main slot puts a newly created object at     *)
(* currentMainMessageIndex, in the same position, and no object is ever    *)
(* changed in place: an entry that is the same object after a step has the *)
(* kind, agent and text it had before, so whoever holds the entry that     *)
(* was in the slot before a merge still sees its old text.                 *)
(***************************************************************************)
Merges(r) ==
  /\ Handles(r)
  /\ Handled(r).node = "supervisor"
  /\ Handled(r).type \in Mergeable
  /\ currentMainMessageIndex # -1

C27_Step ==
  /\ Len(identity') = Len(messages')
  /\ \A i \in DOMAIN identity \cap DOMAIN identity' :
       identity'[i] = identity[i] => messages'[i] = messages[i]
  /\ \A r \in RunIds :
       Merges(r) =>
         LET i == currentMainMessageIndex + 1
         IN  /\ \A j \in DOMAIN identity : identity'[i] # identity[j]
             /\ \A j \in DOMAIN identity \ {i} : identity'[j] = identity[j]
             /\ Len(identity') = Len(identity)

C27_MergeReplacesEntry == [][C27_Step]_vars

\* A result merged into the slot a thinking event had opened: the entry is
\* a third object, in the position of the second, with both texts.
C27_Witness ==
  /\ runs = 1
  /\ Len(messages) = 2
  /\ messages[2].type = "thinking"
  /\ messages[2].message = <<"x", NL, NL, "x">>
  /\ identity = <<1, 3>>
  /\ currentMainMessageIndex = 1

(***************************************************************************)
(* C31.  The textarea and the send button are disabled whenever loading is *)
(* true, and a submit is only issued while loading is false: handleSubmit  *)
(* never runs while loading is true.                                       *)
(***************************************************************************)
C31_SubmitOnlyWhenIdle ==
  [][/\ loading => inputDisabled(App)
     /\ runs' # runs => (loading = FALSE /\ running = 0)]_vars

\* A second submit was issued once the first run was over and its call had
\* returned; the input is disabled again.
C31_Witness ==
  /\ runs = 2
  /\ fetch[1].pc = "closed"
  /\ fetch[2].pc = "fetch"
  /\ loading
  /\ inputDisabled(App)
  /\ lastTask = <<"t", "2">>

(***************************************************************************)
(* C32.  Right after a submit currentActiveAgent is empty, whatever the    *)
(* run before left in it.                                                  *)
(***************************************************************************)
C32_SubmitClearsActiveAgent ==
  [][runs' # runs => currentActiveAgent' = ""]_vars

====
